---- MODULE Spec2Model ----
(***************************************************************************)
(* aws-ssm-connect: the interactive instance picker (package selector),    *)
(* its caller Client.SelectByName, the command polling loop                *)
(* Client.waitForCommandOutput with Client.UploadFile and                  *)
(* Client.DownloadFile, Client.StartSession and package history.           *)
(*                                                                         *)
(* Go strings are byte strings.  A string is modelled as a sequence of     *)
(* bytes, each byte written as a one-entry TLA+ string: "a", "B", " " are  *)
(* the ASCII bytes, "C3" "A9" is the two-byte UTF-8 encoding of the rune   *)
(* e-acute, and "EF" "BF" "BD" is the encoding of U+FFFD.                   *)
(***************************************************************************)
EXTENDS Integers, Sequences, FiniteSets, TLC

VARIABLES
    \* Client.SelectByName
    caller,       \* "selector": selector.SelectInstance is called directly; "SelectByName"
    running,      \* result of GetRunningInstances
    name,         \* the name filter given to SelectByName
    cresult,      \* what SelectByName returned
    \* selector.SelectInstance
    candidates,   \* the instances argument as passed
    recentIDs,    \* the recentIDs argument
    instances,    \* the local instances (reassigned by sortByRecent)
    screen,       \* tcell screen: "none", "created", "active", "fini"
    fds,          \* stdin/stdout/stderr: "orig", "saved", "closed", "restored"
    query,
    cursor,
    selected,
    filtered,
    ev,           \* the event taken by the last PollEvent ("none" once rendered again)
    result,       \* what selector.SelectInstance returned
    pc,
    \* selector.drawScreen
    dpc,
    height,       \* h of screen.Size()
    startIdx,     \* index of the first row drawn
    accessed,     \* the indexes at which drawScreen read filtered, in order
    \* Client.waitForCommandOutput
    wpc,
    pollInterval, \* milliseconds
    ctxDone,      \* the context has been cancelled
    cancelAt,     \* where the loop was when cancel() ran: the waits elapsed, and wpc
    callLive,     \* the GetCommandInvocation in flight was issued before the cancellation
    delays,       \* the waits that elapsed in the select, in order
    checks,       \* the outcome of every GetCommandInvocation so far, in order
    invocation,   \* what the last GetCommandInvocation returned
    wresult,      \* what waitForCommandOutput returned
    \* Client.UploadFile, Client.DownloadFile
    tpc,
    op,           \* "UploadFile" or "DownloadFile"
    size,         \* len(data) of the local file read by UploadFile
    sends,        \* the SendCommand calls made so far
    localFile,    \* the file at the local path of DownloadFile
    tresult,      \* what UploadFile or DownloadFile returned
    \* Client.StartSession and package history
    spc,
    disabled,     \* AWS_SSM_CONNECT_HISTORY_DISABLED is non-empty
    target,       \* the instanceID argument
    store,        \* the entries in the history file
    storeBefore,  \* the entries in the history file when StartSession was called
    hRecent,      \* History.Recent of the History value in memory
    addErr,       \* what the last History.Add returned
    writable,     \* the history file can be written
    now,          \* time.Now(), in ticks
    sresult       \* what StartSession returned

drawVars == <<dpc, height, startIdx, accessed>>
pickerVars == <<caller, running, name, cresult, candidates, recentIDs, instances,
                screen, fds, query, cursor, selected, filtered, ev, result, pc, drawVars>>
waitVars == <<wpc, pollInterval, ctxDone, cancelAt, callLive, delays, checks, invocation, wresult>>
transferVars == <<tpc, op, size, sends, localFile, tresult>>
historyVars == <<store, hRecent, addErr, writable, now>>
sessionVars == <<spc, disabled, target, storeBefore, sresult>>
clientVars == <<transferVars, historyVars, sessionVars>>
vars == <<pickerVars, waitVars, clientVars>>

\* Most History.Add calls the model makes on one History.
MaxAdds == 6

\* Longest query, in bytes, the model lets the user type.
MaxQuery == 3

\* The status checks the model follows one command for.
MaxChecks == 6

\* Longest list drawScreen is given.
MaxRows == 4

\* Tallest terminal, in rows; the shortest has none.
MaxHeight == 8

(***************************************************************************)
(* Strings                                                                 *)
(***************************************************************************)
Space == " "
EAcute == <<"C3", "A9">>
RuneError == <<"EF", "BF", "BD">>

\* The runes a key event can carry, and the bytes string(rune) yields.
Runes == {"a", "B", "sp", "eacute"}
RuneBytes(r) == CASE r = "sp" -> <<Space>>
                  [] r = "eacute" -> EAcute
                  [] OTHER -> <<r>>

\* utf8 decoding at byte i: the width of the rune there, 0 for an invalid byte.
DecodeWidth(s, i) ==
    IF s[i] \in {"a", "b", "B", Space, "1", "2", "3"} THEN 1
    ELSE IF s[i] = "C3" /\ i < Len(s) /\ s[i + 1] = "A9" THEN 2
    ELSE IF s[i] = "EF" /\ i + 2 <= Len(s) /\ s[i + 1] = "BF" /\ s[i + 2] = "BD" THEN 3
    ELSE 0

\* strings.ToLower: upper-case runes are mapped, an invalid byte becomes U+FFFD.
RECURSIVE ToLowerFrom(_, _)
ToLowerFrom(s, i) ==
    IF i > Len(s) THEN <<>>
    ELSE LET w == DecodeWidth(s, i) IN
         IF w = 0 THEN RuneError \o ToLowerFrom(s, i + 1)
         ELSE IF w = 1 THEN <<IF s[i] = "B" THEN "b" ELSE s[i]>> \o ToLowerFrom(s, i + 1)
         ELSE SubSeq(s, i, i + w - 1) \o ToLowerFrom(s, i + w)

ToLower(s) == ToLowerFrom(s, 1)

\* strings.Fields: the maximal runs of non-space bytes, in order.
RECURSIVE FieldsFrom(_, _, _)
FieldsFrom(s, i, cur) ==
    IF i > Len(s) THEN (IF cur = <<>> THEN <<>> ELSE <<cur>>)
    ELSE IF s[i] = Space
         THEN (IF cur = <<>> THEN <<>> ELSE <<cur>>) \o FieldsFrom(s, i + 1, <<>>)
         ELSE FieldsFrom(s, i + 1, Append(cur, s[i]))

Fields(s) == FieldsFrom(s, 1, <<>>)

\* strings.Contains
Contains(s, sub) ==
    \E i \in 0..(Len(s) - Len(sub)) : SubSeq(s, i + 1, i + Len(sub)) = sub

(***************************************************************************)
(* Instances                                                               *)
(***************************************************************************)
Inst(id, nm, ip) == [ID |-> id, Name |-> nm, PrivateIP |-> ip]

I1 == Inst(<<"1">>, <<"a", "b">>, <<>>)
I2 == Inst(<<"2">>, <<"a", "C3", "A9">>, <<>>)
I3 == Inst(<<"3">>, <<"C3", "A9", "B">>, <<>>)
I4 == Inst(<<"b">>, <<>>, <<"a">>)

NoInstance == Inst(<<>>, <<>>, <<>>)

\* The calls the model starts from: who is called, on which instances, with which
\* name filter (SelectByName only) and which recent ids.
Call(c, insts, nm, recent) ==
    [caller |-> c, insts |-> insts, name |-> nm, recent |-> recent]

Inputs ==
    { Call("selector", <<>>, <<>>, <<>>),
      Call("selector", <<I1, I2, I3>>, <<>>, <<>>),
      Call("selector", <<I1, I2, I3>>, <<>>, <<<<"3">>>>),
      Call("selector", <<I1, I2, I3, I4>>, <<>>, <<<<"2">>, <<"1">>>>),
      Call("selector", <<I4, I3, I1>>, <<>>, <<<<"9">>, <<"1">>, <<"b">>>>),
      Call("SelectByName", <<>>, <<"a">>, <<>>),
      Call("SelectByName", <<I1, I2, I3>>, <<"3", Space, "a">>, <<>>),
      Call("SelectByName", <<I1, I2, I3>>, <<"a", "a">>, <<>>),
      Call("SelectByName", <<I1, I2, I3>>, <<"a", Space, "B">>, <<<<"3">>>>),
      Call("SelectByName", <<I1, I2, I3, I4>>, <<"B">>, <<<<"b">>, <<"3">>>>) }

(***************************************************************************)
(* Results                                                                 *)
(***************************************************************************)
NoResult == [kind |-> "none"]
Ok(inst) == [kind |-> "ok", inst |-> inst]
OkIDName(inst) == [kind |-> "ok", ID |-> inst.ID, Name |-> inst.Name]
Err(msg) == [kind |-> "err", msg |-> msg]

ErrNoInstances == "no instances available"
ErrCancelled == "selection cancelled"
ErrNewScreen == "failed to create screen"
ErrInitScreen == "failed to init screen"
ErrNoRunning == "no running SSM-managed instances found"
ErrNoMatch == "no instances found matching"

(***************************************************************************)
(* sortByRecent                                                            *)
(***************************************************************************)
\* priority[id]: i + 1 for the last i with recentIDs[i] = id, 0 when not recent.
priority(recent, id) ==
    LET at == {i \in 1..Len(recent) : recent[i] = id} IN
    IF at = {} THEN 0 ELSE CHOOSE i \in at : \A j \in at : j <= i

Swap(s, i, j) == [s EXCEPT ![i] = s[j], ![j] = s[i]]

\* The comparison of the sort turned around.
SwapIfEarlier(rec, recent, i, j) ==
    IF priority(recent, rec[i].ID) < priority(recent, rec[j].ID)
    THEN Swap(rec, i, j) ELSE rec

\* if priority[recent[i].ID] > priority[recent[j].ID] { swap }
SwapIfLater(rec, recent, i, j) ==
    IF priority(recent, rec[i].ID) > priority(recent, rec[j].ID)
    THEN Swap(rec, i, j) ELSE rec

RECURSIVE sortInner(_, _, _, _)
sortInner(rec, recent, i, j) ==
    IF j > Len(rec) THEN rec
    ELSE sortInner(SwapIfLater(rec, recent, i, j), recent, i, j + 1)

RECURSIVE sortOuter(_, _, _)
sortOuter(rec, recent, i) ==
    IF i > Len(rec) - 1 THEN rec
    ELSE sortOuter(sortInner(rec, recent, i, i + 1), recent, i + 1)

sortByRecent(insts, recent) ==
    LET isRecent(inst) == priority(recent, inst.ID) > 0
        isOther(inst) == ~isRecent(inst)
    IN sortOuter(SelectSeq(insts, isRecent), recent, 1) \o SelectSeq(insts, isOther)

(***************************************************************************)
(* filterInstances                                                         *)
(***************************************************************************)
\* The search string without the instance's address.
searchStrNoAddress(inst) ==
    ToLower(inst.ID \o <<Space>> \o inst.Name)

searchStr(inst) ==
    ToLower(inst.ID \o <<Space>> \o inst.Name \o <<Space>> \o inst.PrivateIP)

\* One matching word is enough.
matchesAnyWord(s, words) ==
    \E k \in 1..Len(words) : Contains(s, words[k])

RECURSIVE matchesAllWords(_, _)
matchesAllWords(s, words) ==
    IF words = <<>> THEN TRUE
    ELSE IF ~Contains(s, Head(words)) THEN FALSE
    ELSE matchesAllWords(s, Tail(words))

RECURSIVE filterLoop(_, _)
filterLoop(insts, words) ==
    IF insts = <<>> THEN <<>>
    ELSE (IF matchesAllWords(searchStr(Head(insts)), words) THEN <<Head(insts)>> ELSE <<>>)
         \o filterLoop(Tail(insts), words)

filterInstances(insts, q) ==
    IF q = <<>> THEN insts
    ELSE LET words == Fields(ToLower(q)) IN
         IF Len(words) = 0 THEN insts ELSE filterLoop(insts, words)

FindByName(insts, filter) == filterInstances(insts, filter)

(***************************************************************************)
(* Client.SelectByName                                                     *)
(***************************************************************************)
drawIdle ==
    /\ dpc = "idle" /\ height = 0 /\ startIdx = 0 /\ accessed = <<>>

selectorIdle ==
    /\ drawIdle
    /\ screen = "none" /\ fds = "orig"
    /\ query = <<>> /\ cursor = 0 /\ selected = 0
    /\ filtered = <<>> /\ ev = "none"
    /\ result = NoResult /\ cresult = NoResult

selectorLocals == <<instances, screen, fds, query, cursor, selected, filtered, ev, result>>
callVars == <<caller, running, name, recentIDs>>

\* SelectByName that lets the user pick among all the running instances.
SelectByNamePicksAmongAll ==
    /\ pc = "SelectByName"
    /\ LET matches == FindByName(running, name) IN
       IF Len(running) = 0
       THEN /\ cresult' = Err(ErrNoRunning)
            /\ pc' = "returned"
            /\ UNCHANGED candidates
       ELSE IF Len(matches) = 0
       THEN /\ cresult' = Err(ErrNoMatch)
            /\ pc' = "returned"
            /\ UNCHANGED candidates
       ELSE IF Len(matches) = 1
       THEN /\ cresult' = OkIDName(matches[1])
            /\ pc' = "returned"
            /\ UNCHANGED candidates
       ELSE /\ candidates' = running
            /\ pc' = "SelectInstance"
            /\ UNCHANGED cresult
    /\ UNCHANGED <<waitVars, clientVars, callVars, drawVars, selectorLocals>>

\* SelectByName up to its return or its call of selector.SelectInstance.
SelectByName ==
    /\ pc = "SelectByName"
    /\ LET matches == FindByName(running, name) IN
       IF Len(running) = 0
       THEN /\ cresult' = Err(ErrNoRunning)
            /\ pc' = "returned"
            /\ UNCHANGED candidates
       ELSE IF Len(matches) = 0
       THEN /\ cresult' = Err(ErrNoMatch)
            /\ pc' = "returned"
            /\ UNCHANGED candidates
       ELSE IF Len(matches) = 1
       THEN /\ cresult' = OkIDName(matches[1])
            /\ pc' = "returned"
            /\ UNCHANGED candidates
       ELSE /\ candidates' = matches
            /\ pc' = "SelectInstance"
            /\ UNCHANGED cresult
    /\ UNCHANGED <<waitVars, clientVars, callVars, drawVars, selectorLocals>>

\* SelectByName once selector.SelectInstance has returned.
SelectByNameReturn ==
    /\ pc = "done"
    /\ caller = "SelectByName"
    /\ cresult' = IF result.kind = "err" THEN result ELSE OkIDName(result.inst)
    /\ pc' = "returned"
    /\ UNCHANGED <<waitVars, clientVars, callVars, drawVars, candidates, selectorLocals>>

(***************************************************************************)
(* selector.SelectInstance                                                 *)
(***************************************************************************)
\* SelectInstance without the empty check.
SelectInstanceNoEmptyCheck ==
    /\ pc = "SelectInstance"
    /\ instances' = IF Len(recentIDs) > 0
                    THEN sortByRecent(candidates, recentIDs)
                    ELSE candidates
    /\ pc' = "dup"
    /\ UNCHANGED <<waitVars, clientVars, callVars, drawVars, candidates, cresult, screen, fds, query, cursor,
                   selected, filtered, ev, result>>

\* The empty check and the sort of the recent instances to the top.
SelectInstance ==
    /\ pc = "SelectInstance"
    /\ IF Len(candidates) = 0
       THEN /\ result' = Err(ErrNoInstances)
            /\ pc' = "done"
            /\ UNCHANGED instances
       ELSE /\ instances' = IF Len(recentIDs) > 0
                            THEN sortByRecent(candidates, recentIDs)
                            ELSE candidates
            /\ pc' = "dup"
            /\ UNCHANGED result
    /\ UNCHANGED <<waitVars, clientVars, callVars, drawVars, candidates, cresult, screen, fds, query, cursor,
                   selected, filtered, ev>>

\* syscall.Dup of stdin, stdout and stderr.
DupFds ==
    /\ pc = "dup"
    /\ fds' = "saved"
    /\ pc' = "newscreen"
    /\ UNCHANGED <<waitVars, clientVars, callVars, drawVars, candidates, cresult, instances, screen, query, cursor,
                   selected, filtered, ev, result>>

NewScreen ==
    /\ pc = "newscreen"
    /\ \/ /\ screen' = "created"
          /\ pc' = "init"
          /\ UNCHANGED <<fds, result>>
       \/ /\ fds' = "closed"
          /\ result' = Err(ErrNewScreen)
          /\ pc' = "done"
          /\ UNCHANGED screen
    /\ UNCHANGED <<waitVars, clientVars, callVars, drawVars, candidates, cresult, instances, query, cursor,
                   selected, filtered, ev>>

\* screen.Init and, when it succeeds, the loop's initial query, cursor and selected.
ScreenInit ==
    /\ pc = "init"
    /\ \/ /\ screen' = "active"
          /\ query' = <<>>
          /\ cursor' = 0
          /\ selected' = 0
          /\ pc' = "top"
          /\ UNCHANGED <<fds, result>>
       \/ /\ fds' = "closed"
          /\ result' = Err(ErrInitScreen)
          /\ pc' = "done"
          /\ UNCHANGED <<screen, query, cursor, selected>>
    /\ UNCHANGED <<waitVars, clientVars, callVars, drawVars, candidates, cresult, instances, filtered, ev>>

\* cleanupScreen: screen.Fini, then Dup2 of the saved descriptors back.
cleanupScreen ==
    /\ screen' = "fini"
    /\ fds' = "restored"

\* The clamp without its upper half.
clampSelectedBelowOnly(sel, n) ==
    IF sel < 0 THEN 0 ELSE sel

\* The clamp of selected at the top of the loop.
clampSelected(sel, n) ==
    LET upper == IF sel >= n THEN n - 1 ELSE sel
    IN IF upper < 0 THEN 0 ELSE upper

\* Top of the loop: filter, clamp, drawScreen, Show.
Render ==
    /\ pc = "top"
    /\ filtered' = filterInstances(instances, query)
    /\ selected' = clampSelected(selected, Len(filtered'))
    /\ ev' = "none"
    /\ pc' = "poll"
    /\ UNCHANGED <<waitVars, clientVars, callVars, drawVars, candidates, cresult, instances, screen, fds, query,
                   cursor, result>>

\* What every key that keeps the loop running leaves alone.
loopFrame == UNCHANGED <<waitVars, clientVars, callVars, drawVars, candidates, cresult, instances, screen, fds,
                         filtered, result>>

\* Cancel that returns the zero Instance and no error.
KeyEscapeNoError ==
    /\ pc = "poll"
    /\ ev' = "KeyEscape"
    /\ cleanupScreen
    /\ result' = Ok(NoInstance)
    /\ pc' = "done"
    /\ UNCHANGED <<waitVars, clientVars, callVars, drawVars, candidates, cresult, instances, query, cursor,
                   selected, filtered>>

KeyEscape ==
    /\ pc = "poll"
    /\ ev' = "KeyEscape"
    /\ cleanupScreen
    /\ result' = Err(ErrCancelled)
    /\ pc' = "done"
    /\ UNCHANGED <<waitVars, clientVars, callVars, drawVars, candidates, cresult, instances, query, cursor,
                   selected, filtered>>

\* Confirm that indexes the unfiltered list.
KeyEnterUnfiltered ==
    /\ pc = "poll"
    /\ ev' = "KeyEnter"
    /\ IF Len(filtered) > 0
       THEN /\ cleanupScreen
            /\ result' = Ok(instances[selected + 1])
            /\ pc' = "done"
       ELSE /\ pc' = "top"
            /\ UNCHANGED <<screen, fds, result>>
    /\ UNCHANGED <<waitVars, clientVars, callVars, drawVars, candidates, cresult, instances, query, cursor,
                   selected, filtered>>

\* Confirm that returns without cleanupScreen.
KeyEnterNoCleanup ==
    /\ pc = "poll"
    /\ ev' = "KeyEnter"
    /\ IF Len(filtered) > 0
       THEN /\ result' = Ok(filtered[selected + 1])
            /\ pc' = "done"
       ELSE /\ pc' = "top"
            /\ UNCHANGED result
    /\ UNCHANGED <<waitVars, clientVars, callVars, drawVars, candidates, cresult, instances, query, cursor,
                   selected, filtered, screen, fds>>

KeyEnter ==
    /\ pc = "poll"
    /\ ev' = "KeyEnter"
    /\ IF Len(filtered) > 0
       THEN /\ cleanupScreen
            /\ result' = Ok(filtered[selected + 1])
            /\ pc' = "done"
       ELSE /\ pc' = "top"
            /\ UNCHANGED <<screen, fds, result>>
    /\ UNCHANGED <<waitVars, clientVars, callVars, drawVars, candidates, cresult, instances, query, cursor,
                   selected, filtered>>

\* Backspace that sends the highlight back to the first row, as typing does.
KeyBackspaceResetsHighlight ==
    /\ pc = "poll"
    /\ ev' = "KeyBackspace"
    /\ IF cursor > 0
       THEN /\ query' = SubSeq(query, 1, cursor - 1) \o SubSeq(query, cursor + 1, Len(query))
            /\ cursor' = cursor - 1
       ELSE UNCHANGED <<query, cursor>>
    /\ pc' = "top"
    /\ selected' = 0
    /\ loopFrame

KeyBackspace ==
    /\ pc = "poll"
    /\ ev' = "KeyBackspace"
    /\ IF cursor > 0
       THEN /\ query' = SubSeq(query, 1, cursor - 1) \o SubSeq(query, cursor + 1, Len(query))
            /\ cursor' = cursor - 1
       ELSE UNCHANGED <<query, cursor>>
    /\ pc' = "top"
    /\ UNCHANGED selected
    /\ loopFrame

KeyDelete ==
    /\ pc = "poll"
    /\ ev' = "KeyDelete"
    /\ IF cursor < Len(query)
       THEN query' = SubSeq(query, 1, cursor) \o SubSeq(query, cursor + 2, Len(query))
       ELSE UNCHANGED query
    /\ pc' = "top"
    /\ UNCHANGED <<cursor, selected>>
    /\ loopFrame

KeyLeft ==
    /\ pc = "poll"
    /\ ev' = "KeyLeft"
    /\ cursor' = IF cursor > 0 THEN cursor - 1 ELSE cursor
    /\ pc' = "top"
    /\ UNCHANGED <<query, selected>>
    /\ loopFrame

\* Right without the test against len(query).
KeyRightUnclamped ==
    /\ pc = "poll"
    /\ ev' = "KeyRight"
    /\ cursor' = cursor + 1
    /\ pc' = "top"
    /\ UNCHANGED <<query, selected>>
    /\ loopFrame

KeyRight ==
    /\ pc = "poll"
    /\ ev' = "KeyRight"
    /\ cursor' = IF cursor < Len(query) THEN cursor + 1 ELSE cursor
    /\ pc' = "top"
    /\ UNCHANGED <<query, selected>>
    /\ loopFrame

KeyUp ==
    /\ pc = "poll"
    /\ ev' = "KeyUp"
    /\ selected' = IF selected > 0 THEN selected - 1 ELSE selected
    /\ pc' = "top"
    /\ UNCHANGED <<query, cursor>>
    /\ loopFrame

\* Down that wraps from the last row to the first.
KeyDownWraps ==
    /\ pc = "poll"
    /\ ev' = "KeyDown"
    /\ selected' = IF selected < Len(filtered) - 1 THEN selected + 1 ELSE 0
    /\ pc' = "top"
    /\ UNCHANGED <<query, cursor>>
    /\ loopFrame

KeyDown ==
    /\ pc = "poll"
    /\ ev' = "KeyDown"
    /\ selected' = IF selected < Len(filtered) - 1 THEN selected + 1 ELSE selected
    /\ pc' = "top"
    /\ UNCHANGED <<query, cursor>>
    /\ loopFrame

\* Ctrl-U that keeps the text before the cursor instead.
KeyCtrlUKeepsHead ==
    /\ pc = "poll"
    /\ ev' = "KeyCtrlU"
    /\ query' = SubSeq(query, 1, cursor)
    /\ cursor' = 0
    /\ pc' = "top"
    /\ UNCHANGED selected
    /\ loopFrame

KeyCtrlU ==
    /\ pc = "poll"
    /\ ev' = "KeyCtrlU"
    /\ query' = SubSeq(query, cursor + 1, Len(query))
    /\ cursor' = 0
    /\ pc' = "top"
    /\ UNCHANGED selected
    /\ loopFrame

KeyCtrlA ==
    /\ pc = "poll"
    /\ ev' = "KeyCtrlA"
    /\ cursor' = 0
    /\ pc' = "top"
    /\ UNCHANGED <<query, selected>>
    /\ loopFrame

KeyCtrlE ==
    /\ pc = "poll"
    /\ ev' = "KeyCtrlE"
    /\ cursor' = Len(query)
    /\ pc' = "top"
    /\ UNCHANGED <<query, selected>>
    /\ loopFrame

\* A typed rune that leaves the highlight where it was.
KeyRuneKeepsHighlight(r) ==
    /\ pc = "poll"
    /\ Len(query) + Len(RuneBytes(r)) <= MaxQuery
    /\ ev' = "KeyRune"
    /\ query' = SubSeq(query, 1, cursor) \o RuneBytes(r) \o SubSeq(query, cursor + 1, Len(query))
    /\ cursor' = cursor + 1
    /\ pc' = "top"
    /\ UNCHANGED selected
    /\ loopFrame

KeyRune(r) ==
    /\ pc = "poll"
    /\ Len(query) + Len(RuneBytes(r)) <= MaxQuery
    /\ ev' = "KeyRune"
    /\ query' = SubSeq(query, 1, cursor) \o RuneBytes(r) \o SubSeq(query, cursor + 1, Len(query))
    /\ cursor' = cursor + 1
    /\ selected' = 0
    /\ pc' = "top"
    /\ loopFrame

\* A key the switch has no case for.
KeyOther ==
    /\ pc = "poll"
    /\ ev' = "KeyOther"
    /\ pc' = "top"
    /\ UNCHANGED <<query, cursor, selected>>
    /\ loopFrame

\* A resize that sends the highlight back to the first row.
EventResizeResets ==
    /\ pc = "poll"
    /\ ev' = "EventResize"
    /\ selected' = 0
    /\ pc' = "top"
    /\ UNCHANGED <<query, cursor>>
    /\ loopFrame

\* screen.Sync draws again and changes none of the loop's variables.
EventResize ==
    /\ pc = "poll"
    /\ ev' = "EventResize"
    /\ pc' = "top"
    /\ UNCHANGED <<query, cursor, selected>>
    /\ loopFrame

\* An event that is neither a key nor a resize: the type switch has no case for it.
EventOther ==
    /\ pc = "poll"
    /\ ev' = "EventOther"
    /\ pc' = "top"
    /\ UNCHANGED <<query, cursor, selected>>
    /\ loopFrame

(***************************************************************************)
(* Client.waitForCommandOutput                                             *)
(***************************************************************************)
seedInterval == 500
maxInterval == 5000

Min(a, b) == IF a < b THEN a ELSE b

Nil == "<nil>"

\* The file at localPath: left as it was, or holding n bytes written by WriteFile.
Untouched == [written |-> FALSE, bytes |-> 0]
Written(n) == [written |-> TRUE, bytes |-> n]

\* A GetCommandInvocation result: err says the call failed.
Invocation(failed, status, out, errc) ==
    [err |-> failed, Status |-> status,
     StandardOutputContent |-> out, StandardErrorContent |-> errc]

NoInvocation == Invocation(FALSE, "", Nil, Nil)

FailedStatuses == {"Failed", "TimedOut", "Cancelled"}
PendingStatuses == {"InProgress", "Pending"}
UnknownStatuses == {"Delayed"}

\* The captured streams of a failed command: <<standard output, standard error>>.
FailedStreams == {<<"", Nil>>, <<"", "">>, <<"part", "boom">>}

WaitOk(out) == [kind |-> "ok", output |-> out]
\* The (string, error) pair returned: an error comes with the empty string.
WaitFailed(status, msg) ==
    [kind |-> "err", what |-> "command", status |-> status, errMsg |-> msg, output |-> ""]
WaitCtxErr == [kind |-> "err", what |-> "context", status |-> "", errMsg |-> "", output |-> ""]

\* cancel() has not run.
NoCancel == [n |-> 0, at |-> "never"]

\* Function entry: the two locals.
waitForCommandOutput ==
    /\ wpc = "call"
    /\ pollInterval' = seedInterval
    /\ wpc' = "select"
    /\ UNCHANGED <<pickerVars, clientVars, ctxDone, cancelAt, callLive, delays, checks, invocation, wresult>>

\* main's signal goroutine: cancel() on SIGINT/SIGTERM.
Cancel ==
    /\ wpc \in {"call", "select", "check"}
    /\ ~ctxDone
    /\ ctxDone' = TRUE
    /\ cancelAt' = [n |-> Len(delays), at |-> wpc]
    /\ UNCHANGED <<pickerVars, clientVars, wpc, pollInterval, callLive, delays, checks,
                   invocation, wresult>>

\* A select that does not take the cancellation.
SelectCtxDoneIgnored ==
    /\ wpc = "select"
    /\ ctxDone
    /\ UNCHANGED vars

\* select: case <-ctx.Done()
SelectCtxDone ==
    /\ wpc = "select"
    /\ ctxDone
    /\ wresult' = WaitCtxErr
    /\ wpc' = "done"
    /\ UNCHANGED <<pickerVars, clientVars, pollInterval, ctxDone, cancelAt, callLive, delays, checks, invocation>>

\* The timer of the select the loop is in can have fired: time.After(pollInterval), of
\* 500ms at least, is created on entering the select, so it is in the running only when
\* the select began to wait before cancel() ran.  A select entered with ctx.Done()
\* closed takes that case at once.
timerRunning ==
    \/ ~ctxDone
    \/ cancelAt.at = "select" /\ cancelAt.n = Len(delays)

\* A loop that gives up with an error instead of starting a fourth check.
SelectTimerGivesUp ==
    /\ wpc = "select"
    /\ timerRunning
    /\ Len(delays) < MaxChecks
    /\ IF Len(delays) >= 3
       THEN /\ wresult' = [kind |-> "err", what |-> "attempts", status |-> "", errMsg |-> "",
                           output |-> ""]
            /\ wpc' = "done"
            /\ UNCHANGED <<delays, callLive>>
       ELSE /\ delays' = Append(delays, pollInterval)
            /\ callLive' = ~ctxDone
            /\ wpc' = "check"
            /\ UNCHANGED wresult
    /\ UNCHANGED <<pickerVars, clientVars, pollInterval, ctxDone, cancelAt, checks, invocation>>

\* A select that takes the timer case however long ctx.Done() has been closed.
SelectTimerOverDone ==
    /\ wpc = "select"
    /\ Len(delays) < MaxChecks
    /\ delays' = Append(delays, pollInterval)
    /\ callLive' = ~ctxDone
    /\ wpc' = "check"
    /\ UNCHANGED <<pickerVars, clientVars, pollInterval, ctxDone, cancelAt, checks, invocation, wresult>>

\* select: case <-time.After(pollInterval), and the GetCommandInvocation request that
\* follows it.  When the signal and the timer are both ready either case is taken.  A
\* request issued on a cancelled context can only fail.
SelectTimer ==
    /\ wpc = "select"
    /\ timerRunning
    /\ Len(delays) < MaxChecks
    /\ delays' = Append(delays, pollInterval)
    /\ callLive' = ~ctxDone
    /\ wpc' = "check"
    /\ UNCHANGED <<pickerVars, clientVars, pollInterval, ctxDone, cancelAt, checks, invocation, wresult>>

\* The unresolved arms double the interval up to the ceiling and loop.
backoff ==
    /\ pollInterval' = Min(pollInterval * 2, maxInterval)
    /\ wpc' = "select"
    /\ UNCHANGED <<pickerVars, clientVars, ctxDone, cancelAt, callLive, delays, wresult>>

\* GetCommandInvocation returned an error: a backend error, or the context error when
\* the cancellation came before or during the call.
\* A failed call whose error is returned to the caller.
CheckErrorSurfaced ==
    /\ wpc = "check"
    /\ invocation' = Invocation(TRUE, "", Nil, Nil)
    /\ checks' = Append(checks, "error")
    /\ wresult' = [kind |-> "err", what |-> "check", status |-> "", errMsg |-> "", output |-> ""]
    /\ wpc' = "done"
    /\ UNCHANGED <<pickerVars, clientVars, pollInterval, ctxDone, cancelAt, callLive, delays>>

CheckError ==
    /\ wpc = "check"
    /\ invocation' = Invocation(TRUE, "", Nil, Nil)
    /\ checks' = Append(checks, "error")
    /\ backoff

\* A Success answer after which the loop backs off and polls again.
CheckSuccessKeepsPolling ==
    /\ wpc = "check"
    /\ callLive
    /\ \E out \in {Nil, "", "ok\n", "aGk=\n"} :
          invocation' = Invocation(FALSE, "Success", out, "")
    /\ checks' = Append(checks, "Success")
    /\ backoff

CheckSuccess ==
    /\ wpc = "check"
    /\ callLive
    /\ \E out \in {Nil, "", "ok\n", "aGk=\n"} :
          /\ invocation' = Invocation(FALSE, "Success", out, "")
          /\ wresult' = WaitOk(IF out # Nil THEN out ELSE "")
    /\ checks' = Append(checks, "Success")
    /\ wpc' = "done"
    /\ UNCHANGED <<pickerVars, clientVars, pollInterval, ctxDone, cancelAt, callLive, delays>>

\* A failed command whose captured standard output is returned with the error.
CheckFailedWithOutput ==
    /\ wpc = "check"
    /\ callLive
    /\ \E status \in FailedStatuses : \E streams \in FailedStreams :
          /\ invocation' = Invocation(FALSE, status, streams[1], streams[2])
          /\ wresult' = [WaitFailed(status, IF streams[2] # Nil /\ streams[2] # ""
                                            THEN streams[2] ELSE "")
                            EXCEPT !.output = streams[1]]
          /\ checks' = Append(checks, status)
    /\ wpc' = "done"
    /\ UNCHANGED <<pickerVars, clientVars, pollInterval, ctxDone, cancelAt, callLive, delays>>

CheckFailed ==
    /\ wpc = "check"
    /\ callLive
    /\ \E status \in FailedStatuses : \E streams \in FailedStreams :
          /\ invocation' = Invocation(FALSE, status, streams[1], streams[2])
          /\ wresult' = WaitFailed(status, IF streams[2] # Nil /\ streams[2] # ""
                                           THEN streams[2] ELSE "")
          /\ checks' = Append(checks, status)
    /\ wpc' = "done"
    /\ UNCHANGED <<pickerVars, clientVars, pollInterval, ctxDone, cancelAt, callLive, delays>>

\* An unresolved check that doubles the interval past the ceiling.
CheckPendingNoCeiling ==
    /\ wpc = "check"
    /\ callLive
    /\ \E status \in PendingStatuses :
          /\ invocation' = Invocation(FALSE, status, "", "")
          /\ checks' = Append(checks, status)
    /\ pollInterval' = pollInterval * 2
    /\ wpc' = "select"
    /\ UNCHANGED <<pickerVars, clientVars, ctxDone, cancelAt, callLive, delays, wresult>>

\* An unresolved check that leaves the interval as it is.
CheckPendingNoBackoff ==
    /\ wpc = "check"
    /\ callLive
    /\ \E status \in PendingStatuses :
          /\ invocation' = Invocation(FALSE, status, "", "")
          /\ checks' = Append(checks, status)
    /\ wpc' = "select"
    /\ UNCHANGED <<pickerVars, clientVars, pollInterval, ctxDone, cancelAt, callLive, delays, wresult>>

CheckPending ==
    /\ wpc = "check"
    /\ callLive
    /\ \E status \in PendingStatuses :
          /\ invocation' = Invocation(FALSE, status, "", "")
          /\ checks' = Append(checks, status)
    /\ backoff

\* A default arm that starts the interval over from the seed.
CheckUnknownResets ==
    /\ wpc = "check"
    /\ callLive
    /\ \E status \in UnknownStatuses :
          /\ invocation' = Invocation(FALSE, status, "", "")
          /\ checks' = Append(checks, status)
    /\ pollInterval' = seedInterval
    /\ wpc' = "select"
    /\ UNCHANGED <<pickerVars, clientVars, ctxDone, cancelAt, callLive, delays, wresult>>

\* The default arm of the switch.
CheckUnknown ==
    /\ wpc = "check"
    /\ callLive
    /\ \E status \in UnknownStatuses :
          /\ invocation' = Invocation(FALSE, status, "", "")
          /\ checks' = Append(checks, status)
    /\ backoff

(***************************************************************************)
(* Client.UploadFile and Client.DownloadFile                               *)
(***************************************************************************)
maxUploadSize == 100 * 1024

\* What ReadFile gives for a file it cannot read, in place of len(data).
ReadError == -1

\* What DecodeString gives for a corrupt input, in place of the number of bytes.
CorruptInput == -1

\* len(data) of the local files the model uploads.
UploadSizes == {maxUploadSize, maxUploadSize + 1, 2 * maxUploadSize}

TransferOk == [kind |-> "ok"]
TransferErr(what) == [kind |-> "err", what |-> what, status |-> "", errMsg |-> ""]
\* The error of waitForCommandOutput, returned as it is.
ErrOf(w) == [kind |-> "err", what |-> w.what, status |-> w.status, errMsg |-> w.errMsg]

\* The characters of the standard outputs the model's commands print.
Chars(out) ==
    CASE out = "" -> <<>>
      [] out = "ok\n" -> <<"o", "k", "\n">>
      [] out = "aGk=\n" -> <<"a", "G", "k", "=", "\n">>

Base64Alphabet ==
    {"A", "B", "C", "D", "E", "F", "G", "H", "I", "J", "K", "L", "M", "N", "O", "P", "Q",
     "R", "S", "T", "U", "V", "W", "X", "Y", "Z", "a", "b", "c", "d", "e", "f", "g", "h",
     "i", "j", "k", "l", "m", "n", "o", "p", "q", "r", "s", "t", "u", "v", "w", "x", "y",
     "z", "0", "1", "2", "3", "4", "5", "6", "7", "8", "9", "+", "/"}

IsNewline(c) == c \in {"\n", "\r"}

\* base64.StdEncoding.DecodeString: newlines are skipped, the rest is read in groups of
\* four characters of the alphabet, and only the last group may end in one or two "=".
\* The result is the number of bytes decoded, or CorruptInput.
DecodeString(out) ==
    LET s == SelectSeq(Chars(out), LAMBDA c : ~IsNewline(c))
        n == Len(s)
        pads == IF n > 0 /\ s[n] = "=" THEN (IF s[n - 1] = "=" THEN 2 ELSE 1) ELSE 0
    IN  IF /\ n % 4 = 0
           /\ \A i \in 1..(n - pads) : s[i] \in Base64Alphabet
        THEN (n \div 4) * 3 - pads
        ELSE CorruptInput

waitFrame == UNCHANGED <<pollInterval, ctxDone, cancelAt, callLive, delays, checks, invocation, wresult>>

\* UploadFile that refuses a file of exactly maxUploadSize bytes.
UploadFileRefusesLimit ==
    /\ tpc = "UploadFile"
    /\ \/ /\ size = ReadError
          /\ tresult' = TransferErr("read")
          /\ tpc' = "returned"
          /\ UNCHANGED <<sends, wpc>>
       \/ /\ size # ReadError /\ size >= maxUploadSize
          /\ tresult' = TransferErr("size")
          /\ tpc' = "returned"
          /\ UNCHANGED <<sends, wpc>>
       \/ /\ size # ReadError /\ size < maxUploadSize
          /\ sends' = sends + 1
          /\ \/ tresult' = TransferErr("send") /\ tpc' = "returned" /\ UNCHANGED wpc
             \/ tpc' = "waitForCommand" /\ wpc' = "call" /\ UNCHANGED tresult
    /\ waitFrame
    /\ UNCHANGED <<pickerVars, historyVars, sessionVars, op, size, localFile>>

\* UploadFile up to its call of waitForCommand: ReadFile, the size check, SendCommand.
UploadFile ==
    /\ tpc = "UploadFile"
    /\ \/ /\ size = ReadError
          /\ tresult' = TransferErr("read")
          /\ tpc' = "returned"
          /\ UNCHANGED <<sends, wpc>>
       \/ /\ size # ReadError /\ size > maxUploadSize
          /\ tresult' = TransferErr("size")
          /\ tpc' = "returned"
          /\ UNCHANGED <<sends, wpc>>
       \/ /\ size # ReadError /\ size <= maxUploadSize
          /\ sends' = sends + 1
          /\ \/ tresult' = TransferErr("send") /\ tpc' = "returned" /\ UNCHANGED wpc
             \/ tpc' = "waitForCommand" /\ wpc' = "call" /\ UNCHANGED tresult
    /\ waitFrame
    /\ UNCHANGED <<pickerVars, historyVars, sessionVars, op, size, localFile>>

\* UploadFile that reports success whatever waitForCommand returned.
UploadReturnIgnoresStatus ==
    /\ tpc = "waitForCommand"
    /\ wpc = "done"
    /\ tresult' = TransferOk
    /\ tpc' = "returned"
    /\ waitFrame
    /\ UNCHANGED <<pickerVars, historyVars, sessionVars, wpc, op, size, sends, localFile>>

\* waitForCommand drops the output and keeps the error; UploadFile returns it.
UploadReturn ==
    /\ tpc = "waitForCommand"
    /\ wpc = "done"
    /\ tresult' = IF wresult.kind = "err" THEN ErrOf(wresult) ELSE TransferOk
    /\ tpc' = "returned"
    /\ waitFrame
    /\ UNCHANGED <<pickerVars, historyVars, sessionVars, wpc, op, size, sends, localFile>>

\* DownloadFile that submits the command a second time when the first is rejected.
DownloadFileRetriesSend ==
    /\ tpc = "DownloadFile"
    /\ \/ sends' = sends + 2 /\ tresult' = TransferErr("send") /\ tpc' = "returned" /\ UNCHANGED wpc
       \/ sends' = sends + 1 /\ tpc' = "waitForCommandOutput" /\ wpc' = "call" /\ UNCHANGED tresult
    /\ waitFrame
    /\ UNCHANGED <<pickerVars, historyVars, sessionVars, op, size, localFile>>

\* DownloadFile up to its call of waitForCommandOutput.
DownloadFile ==
    /\ tpc = "DownloadFile"
    /\ sends' = sends + 1
    /\ \/ tresult' = TransferErr("send") /\ tpc' = "returned" /\ UNCHANGED wpc
       \/ tpc' = "waitForCommandOutput" /\ wpc' = "call" /\ UNCHANGED tresult
    /\ waitFrame
    /\ UNCHANGED <<pickerVars, historyVars, sessionVars, op, size, localFile>>

\* DownloadFile that opens the local file for writing before it decodes the output.
DownloadReturnWritesFirst ==
    /\ tpc = "waitForCommandOutput"
    /\ wpc = "done"
    /\ \/ /\ wresult.kind = "err"
          /\ tresult' = ErrOf(wresult)
          /\ UNCHANGED localFile
       \/ /\ wresult.kind = "ok"
          /\ DecodeString(wresult.output) = CorruptInput
          /\ tresult' = TransferErr("decode")
          /\ localFile' = Written(0)
       \/ /\ wresult.kind = "ok"
          /\ DecodeString(wresult.output) # CorruptInput
          /\ \/ /\ localFile' = Written(DecodeString(wresult.output))
                /\ tresult' = TransferOk
             \/ /\ localFile' \in {localFile, Written(0)}
                /\ tresult' = TransferErr("write")
    /\ tpc' = "returned"
    /\ waitFrame
    /\ UNCHANGED <<pickerVars, historyVars, sessionVars, wpc, op, size, sends>>

\* DownloadFile that reports an undecodable output as a failure of the command.
DownloadReturnDecodeAsCommand ==
    /\ tpc = "waitForCommandOutput"
    /\ wpc = "done"
    /\ \/ /\ wresult.kind = "err"
          /\ tresult' = ErrOf(wresult)
          /\ UNCHANGED localFile
       \/ /\ wresult.kind = "ok"
          /\ DecodeString(wresult.output) = CorruptInput
          /\ tresult' = ErrOf(WaitFailed("Failed", ""))
          /\ UNCHANGED localFile
       \/ /\ wresult.kind = "ok"
          /\ DecodeString(wresult.output) # CorruptInput
          /\ \/ /\ localFile' = Written(DecodeString(wresult.output))
                /\ tresult' = TransferOk
             \/ /\ localFile' \in {localFile, Written(0)}
                /\ tresult' = TransferErr("write")
    /\ tpc' = "returned"
    /\ waitFrame
    /\ UNCHANGED <<pickerVars, historyVars, sessionVars, wpc, op, size, sends>>

\* DownloadFile after waitForCommandOutput: the error is returned as it is; otherwise the
\* output is decoded and written.  A WriteFile that fails has not opened the file, or has
\* truncated it.
DownloadReturn ==
    /\ tpc = "waitForCommandOutput"
    /\ wpc = "done"
    /\ \/ /\ wresult.kind = "err"
          /\ tresult' = ErrOf(wresult)
          /\ UNCHANGED localFile
       \/ /\ wresult.kind = "ok"
          /\ DecodeString(wresult.output) = CorruptInput
          /\ tresult' = TransferErr("decode")
          /\ UNCHANGED localFile
       \/ /\ wresult.kind = "ok"
          /\ DecodeString(wresult.output) # CorruptInput
          /\ \/ /\ localFile' = Written(DecodeString(wresult.output))
                /\ tresult' = TransferOk
             \/ /\ localFile' \in {localFile, Written(0)}
                /\ tresult' = TransferErr("write")
    /\ tpc' = "returned"
    /\ waitFrame
    /\ UNCHANGED <<pickerVars, historyVars, sessionVars, wpc, op, size, sends>>

(***************************************************************************)
(* Package history                                                         *)
(***************************************************************************)
maxRecent == 5

Entry(instanceID, entryName, lastUsed) ==
    [InstanceID |-> instanceID, Name |-> entryName, LastUsed |-> lastUsed]

\* Add that keeps the old entry of the instance.
AddNoFilter(recent, instanceID, entryName, lastUsed) ==
    LET all == <<Entry(instanceID, entryName, lastUsed)>> \o recent
    IN  IF Len(all) > maxRecent THEN SubSeq(all, 1, maxRecent) ELSE all

\* History.Add up to its save: the new h.Recent.
Add(recent, instanceID, entryName, lastUsed) ==
    LET kept == SelectSeq(recent, LAMBDA e : e.InstanceID # instanceID)
        all == <<Entry(instanceID, entryName, lastUsed)>> \o kept
    IN  IF Len(all) > maxRecent THEN SubSeq(all, 1, maxRecent) ELSE all

\* History.save: the file is replaced, or the error is returned and the file is as before.
save ==
    IF writable
    THEN store' = hRecent' /\ addErr' = "nil"
    ELSE store' = store /\ addErr' = "error"

HistoryIDs == {"i-1", "i-2", "i-3", "i-4", "i-5", "i-6"}

\* One History.Add call on the History in memory; the clock has ticked since the last.
HistoryAdd ==
    /\ now < MaxAdds
    /\ \E id \in HistoryIDs :
          hRecent' = Add(hRecent, id, "web", now + 1)
    /\ now' = now + 1
    /\ save
    /\ UNCHANGED <<pickerVars, waitVars, transferVars, sessionVars, writable>>

(***************************************************************************)
(* Client.StartSession                                                     *)
(***************************************************************************)
SessionOk == [kind |-> "ok"]
SessionErr(what) == [kind |-> "err", what |-> what]

\* StartSession that records the target whatever the environment says.
StartSessionAlwaysRecords ==
    /\ spc = "StartSession"
    /\ hRecent' = Add(store, target, "web", now + 1)
    /\ now' = now + 1
    /\ save
    /\ UNCHANGED writable
    /\ spc' = "start"
    /\ UNCHANGED <<pickerVars, waitVars, transferVars, disabled, target, storeBefore, sresult>>

\* StartSession up to its call of the StartSession API: history.Load and History.Add
\* unless AWS_SSM_CONNECT_HISTORY_DISABLED is set; both errors are dropped.
StartSession ==
    /\ spc = "StartSession"
    /\ IF disabled
       THEN UNCHANGED historyVars
       ELSE /\ hRecent' = Add(store, target, "web", now + 1)
            /\ now' = now + 1
            /\ save
            /\ UNCHANGED writable
    /\ spc' = "start"
    /\ UNCHANGED <<pickerVars, waitVars, transferVars, disabled, target, storeBefore, sresult>>

\* The rest of StartSession: the API call, LookPath, /dev/tty, the plugin run.
StartSessionReturn ==
    /\ spc = "start"
    /\ \E outcome \in {"api", "plugin", "tty", "run", "nil"} :
          sresult' = IF outcome = "nil" THEN SessionOk ELSE SessionErr(outcome)
    /\ spc' = "returned"
    /\ UNCHANGED <<pickerVars, waitVars, transferVars, historyVars, disabled, target,
                   storeBefore>>

(***************************************************************************)
(* The picker and its caller                                               *)
(***************************************************************************)
transferIdle ==
    /\ tpc = "idle" /\ op = "none" /\ size = 0 /\ sends = 0
    /\ localFile = Untouched /\ tresult = NoResult

historyIdle ==
    /\ store = <<>> /\ hRecent = <<>> /\ addErr = "none"
    /\ writable = TRUE /\ now = 0

sessionIdle ==
    /\ spc = "idle" /\ disabled = FALSE /\ target = ""
    /\ storeBefore = <<>> /\ sresult = NoResult

clientIdle == transferIdle /\ historyIdle /\ sessionIdle

waitIdle ==
    /\ wpc = "idle" /\ pollInterval = 0 /\ ctxDone = FALSE /\ callLive = FALSE
    /\ cancelAt = NoCancel
    /\ delays = <<>> /\ checks = <<>>
    /\ invocation = NoInvocation /\ wresult = NoResult

Init ==
    /\ \E call \in Inputs :
          /\ caller = call.caller
          /\ name = call.name
          /\ recentIDs = call.recent
          /\ running = IF call.caller = "SelectByName" THEN call.insts ELSE <<>>
          /\ candidates = IF call.caller = "selector" THEN call.insts ELSE <<>>
          /\ pc = IF call.caller = "selector" THEN "SelectInstance" ELSE "SelectByName"
    /\ instances = <<>>
    /\ selectorIdle
    /\ waitIdle
    /\ clientIdle

Next ==
    \/ SelectByName
    \/ SelectByNameReturn
    \/ SelectInstance
    \/ DupFds
    \/ NewScreen
    \/ ScreenInit
    \/ Render
    \/ KeyEscape
    \/ KeyEnter
    \/ KeyBackspace
    \/ KeyDelete
    \/ KeyLeft
    \/ KeyRight
    \/ KeyUp
    \/ KeyDown
    \/ KeyCtrlU
    \/ KeyCtrlA
    \/ KeyCtrlE
    \/ \E r \in Runes : KeyRune(r)
    \/ KeyOther
    \/ EventResize
    \/ EventOther

Spec == Init /\ [][Next]_vars

(***************************************************************************)
(* The polling loop on its own                                             *)
(***************************************************************************)
pickerIdle ==
    /\ caller = "none" /\ running = <<>> /\ name = <<>>
    /\ candidates = <<>> /\ recentIDs = <<>> /\ instances = <<>>
    /\ pc = "idle"
    /\ selectorIdle

WaitInit ==
    /\ wpc = "call"
    /\ pollInterval = 0
    /\ ctxDone = FALSE
    /\ cancelAt = NoCancel
    /\ callLive = FALSE
    /\ delays = <<>>
    /\ checks = <<>>
    /\ invocation = NoInvocation
    /\ wresult = NoResult
    /\ pickerIdle
    /\ clientIdle

WaitNext ==
    \/ waitForCommandOutput
    \/ Cancel
    \/ SelectCtxDone
    \/ SelectTimer
    \/ CheckError
    \/ CheckSuccess
    \/ CheckFailed
    \/ CheckPending
    \/ CheckUnknown

WaitSpec == WaitInit /\ [][WaitNext]_vars

(***************************************************************************)
(* A History, from empty, under any sequence of Add                        *)
(***************************************************************************)
HistoryInit ==
    /\ store = <<>>
    /\ hRecent = <<>>
    /\ addErr = "none"
    /\ writable \in BOOLEAN
    /\ now = 0
    /\ sessionIdle
    /\ transferIdle
    /\ waitIdle
    /\ pickerIdle

HistoryNext == HistoryAdd

HistorySpec == HistoryInit /\ [][HistoryNext]_vars

(***************************************************************************)
(* One StartSession call on a history file written by earlier calls        *)
(***************************************************************************)
RECURSIVE HistoryOf(_)
\* The history after Add of each of ids in turn, one tick apart.
HistoryOf(ids) ==
    IF ids = <<>>
    THEN <<>>
    ELSE Add(HistoryOf(SubSeq(ids, 1, Len(ids) - 1)), ids[Len(ids)], "web", Len(ids))

SessionStores ==
    {HistoryOf(<<>>), HistoryOf(<<"i-1">>), HistoryOf(<<"i-1", "i-2">>),
     HistoryOf(<<"i-2", "i-1", "i-2">>),
     HistoryOf(<<"i-1", "i-2", "i-3", "i-4", "i-5", "i-6">>)}

SessionInit ==
    /\ spc = "StartSession"
    /\ disabled \in BOOLEAN
    /\ target \in {"i-1", "i-2", "i-7"}
    /\ store \in SessionStores
    /\ storeBefore = store
    /\ sresult = NoResult
    /\ hRecent = <<>>
    /\ addErr = "none"
    /\ writable \in BOOLEAN
    /\ now = MaxAdds
    /\ transferIdle
    /\ waitIdle
    /\ pickerIdle

SessionNext ==
    \/ StartSession
    \/ StartSessionReturn

SessionSpec == SessionInit /\ [][SessionNext]_vars

(***************************************************************************)
(* A file transfer: UploadFile or DownloadFile with its polling loop       *)
(***************************************************************************)
TransferInit ==
    /\ \/ /\ op = "UploadFile"
          /\ size \in UploadSizes \cup {ReadError}
       \/ /\ op = "DownloadFile"
          /\ size = 0
    /\ tpc = op
    /\ sends = 0
    /\ localFile = Untouched
    /\ tresult = NoResult
    /\ waitIdle
    /\ pickerIdle
    /\ historyIdle
    /\ sessionIdle

TransferNext ==
    \/ UploadFile
    \/ UploadReturn
    \/ DownloadFile
    \/ DownloadReturn
    \/ waitForCommandOutput
    \/ Cancel
    \/ SelectCtxDone
    \/ SelectTimer
    \/ CheckError
    \/ CheckSuccess
    \/ CheckFailed
    \/ CheckPending
    \/ CheckUnknown

TransferSpec == TransferInit /\ [][TransferNext]_vars

\* The goroutine keeps running and every GetCommandInvocation call returns; a select
\* with several ready cases picks one at random, so the ready ctx.Done() case is not
\* passed over for ever.  Nothing is assumed of the signal or of the timer.
CheckReturns == CheckError \/ CheckSuccess \/ CheckFailed \/ CheckPending \/ CheckUnknown

WaitFairSpec ==
    /\ WaitSpec
    /\ WF_vars(waitForCommandOutput)
    /\ WF_vars(CheckReturns)
    /\ SF_vars(SelectCtxDone)

(***************************************************************************)
(* drawScreen's window on the list, for every list, highlight and height   *)
(***************************************************************************)
\* maxVisible := h - 3
maxVisible(h) == h - 3

\* startIdx := 0; if selected >= maxVisible { startIdx = selected - maxVisible + 1 }
startIdxOf(sel, h) ==
    IF sel >= maxVisible(h) THEN sel - maxVisible(h) + 1 ELSE 0

\* The row loop that reads filtered[startIdx+i] for every i below maxVisible.
RECURSIVE drawRowsNoLenCheck(_, _, _, _)
drawRowsNoLenCheck(i, start, maxV, n) ==
    IF i < maxV
    THEN <<start + i>> \o drawRowsNoLenCheck(i + 1, start, maxV, n)
    ELSE <<>>

\* for i := 0; i < maxVisible && startIdx+i < len(filtered); i++ { inst := filtered[startIdx+i] ... }
\* The value is the indexes read, in order.
RECURSIVE drawRows(_, _, _, _)
drawRows(i, start, maxV, n) ==
    IF i < maxV /\ start + i < n
    THEN <<start + i>> \o drawRows(i + 1, start, maxV, n)
    ELSE <<>>

\* A list of n instances.
Rows(n) == [k \in 1..n |-> <<I1, I2, I3, I4>>[((k - 1) % 4) + 1]]

drawFrame ==
    UNCHANGED <<waitVars, clientVars, callVars, cresult, candidates, selectorLocals, pc>>

drawScreen ==
    /\ dpc = "draw"
    /\ startIdx' = startIdxOf(selected, height)
    /\ accessed' = drawRows(0, startIdx', maxVisible(height), Len(filtered))
    /\ dpc' = "drawn"
    /\ UNCHANGED height
    /\ drawFrame

\* EventResize: screen.Sync(), and the loop draws again on the new screen.Size().
DrawResize ==
    /\ dpc = "drawn"
    /\ \E h \in 0..MaxHeight : height' = h
    /\ dpc' = "draw"
    /\ UNCHANGED <<startIdx, accessed>>
    /\ drawFrame

\* filtered and selected as the top of the loop hands them to drawScreen: selected is
\* clamped against the list.
DrawInit ==
    /\ \E n \in 0..MaxRows, sel \in (0 - 1)..MaxRows, h \in 0..MaxHeight :
          /\ filtered = Rows(n)
          /\ selected = clampSelected(sel, n)
          /\ height = h
    /\ dpc = "draw" /\ startIdx = 0 /\ accessed = <<>>
    /\ caller = "none" /\ running = <<>> /\ name = <<>>
    /\ candidates = <<>> /\ recentIDs = <<>> /\ instances = <<>>
    /\ pc = "idle"
    /\ screen = "active" /\ fds = "closed"
    /\ query = <<>> /\ cursor = 0 /\ ev = "none"
    /\ result = NoResult /\ cresult = NoResult
    /\ waitIdle
    /\ clientIdle

DrawNext ==
    \/ drawScreen
    \/ DrawResize

DrawSpec == DrawInit /\ [][DrawNext]_vars

TypeOK ==
    /\ cursor \in 0..Len(query)
    /\ Len(query) <= MaxQuery
    /\ pc \in {"SelectByName", "SelectInstance", "dup", "newscreen", "init", "top",
               "poll", "done", "returned"}

(***************************************************************************)
(* What the picker is required to do, stated without the code's loops      *)
(***************************************************************************)
Range(s) == {s[i] : i \in 1..Len(s)}

\* The lower-cased whitespace-separated tokens of q.
TokensOf(q) == [k \in 1..Len(Fields(q)) |-> ToLower(Fields(q)[k])]

\* inst matches q: every token is a substring of lower(id + " " + name + " " + address).
Matches(inst, q) ==
    LET hay == ToLower(inst.ID \o <<Space>> \o inst.Name \o <<Space>> \o inst.PrivateIP)
    IN \A k \in 1..Len(TokensOf(q)) : Contains(hay, TokensOf(q)[k])

\* The candidates that match q, in their order in insts.
MatchingIn(insts, q) ==
    LET keep(inst) == Matches(inst, q) IN SelectSeq(insts, keep)

\* The matching candidates named by recent[k..], in the order of recent.
RECURSIVE RecentMatches(_, _, _, _)
RecentMatches(insts, q, recent, k) ==
    IF k > Len(recent) THEN <<>>
    ELSE LET named(inst) == inst.ID = recent[k] /\ Matches(inst, q)
         IN SelectSeq(insts, named) \o RecentMatches(insts, q, recent, k + 1)

\* The matching candidates no recent id names, in their order in insts.
OtherMatches(insts, q, recent) ==
    LET unnamed(inst) == inst.ID \notin Range(recent) /\ Matches(inst, q)
    IN SelectSeq(insts, unnamed)

\* Non-empty tokens a user can append to a query.
ExtraTokens ==
    {<<"a">>, <<"B">>, <<"a", "B">>, <<"B", "a">>, EAcute, <<"C3">>, <<"A9">>}

Separators == {<<Space>>, <<Space, Space>>}

(***************************************************************************)
(* C1  Picker highlight invariant: whenever the view is rendered (and so   *)
(* whenever a confirm is processed) selected is a valid index into the     *)
(* instances filtered by the current query, or 0 when that view is empty.  *)
(***************************************************************************)
HighlightValid ==
    pc = "poll" =>
        LET view == filterInstances(instances, query) IN
        /\ selected >= 0
        /\ IF Len(view) = 0 THEN selected = 0 ELSE selected < Len(view)

\* Rendered with the highlight on the last row of a view narrowed by a query.
HighlightValidWitness ==
    /\ pc = "poll"
    /\ query # <<>>
    /\ Len(filtered) >= 2
    /\ Len(filtered) < Len(instances)
    /\ selected = Len(filtered) - 1

(***************************************************************************)
(* C2  filterInstances returns exactly the candidates every lower-cased    *)
(* whitespace-separated token of the query is a substring of, in input     *)
(* order; a query without tokens returns all candidates.  Checked where    *)
(* the picker and FindByName apply it.                                     *)
(***************************************************************************)
FilterExact ==
    /\ pc = "poll" =>
          /\ filtered = MatchingIn(instances, query)
          /\ (TokensOf(query) = <<>> => filtered = instances)
    /\ (caller = "SelectByName" /\ pc \notin {"SelectByName", "returned"}) =>
          candidates = MatchingIn(running, name)

\* Scenario 1: three candidates, query "a B", and only the first has both tokens.
FilterExactWitness ==
    /\ pc = "poll"
    /\ instances = <<I1, I2, I3>>
    /\ query = <<"a", Space, "B">>
    /\ filtered = <<I1>>

(***************************************************************************)
(* C3  Recency ranking: in the filtered view the matching candidates whose *)
(* id is in recentIDs come first, in the order of recentIDs, and the other *)
(* matching candidates follow in their input order.                        *)
(***************************************************************************)
RecentFirst ==
    pc = "poll" =>
        filtered = RecentMatches(candidates, query, recentIDs, 1)
                   \o OtherMatches(candidates, query, recentIDs)

\* recentIDs = [2, 1]: I2 precedes I1 and both precede the non-recent match I4.
RecentFirstWitness ==
    /\ pc = "poll"
    /\ candidates = <<I1, I2, I3, I4>>
    /\ recentIDs = <<<<"2">>, <<"1">>>>
    /\ query = <<"a">>
    /\ filtered = <<I2, I1, I4>>

(***************************************************************************)
(* C4  Filter monotonicity: a query extended by whitespace and one more    *)
(* token never matches a candidate the query itself does not match.        *)
(***************************************************************************)
FilterMonotone ==
    pc = "poll" =>
        \A sep \in Separators : \A t \in ExtraTokens :
            Range(filterInstances(instances, query \o sep \o t)) \subseteq Range(filtered)

\* A query whose view an extra token narrows to a smaller, non-empty one.
FilterMonotoneWitness ==
    /\ pc = "poll"
    /\ query = <<"a">>
    /\ Len(filtered) = 3
    /\ Len(filterInstances(instances, query \o <<Space>> \o <<"B">>)) = 2

(***************************************************************************)
(* C5  Confirm: Enter on a non-empty view ends the picker with             *)
(* filtered[selected], a member of the input candidates that matches the   *)
(* current query; Enter on an empty view changes nothing and the loop      *)
(* goes on.                                                                *)
(***************************************************************************)
ConfirmReturnsHighlighted ==
    [][(pc = "poll" /\ ev' = "KeyEnter") =>
          IF Len(filtered) > 0
          THEN /\ pc' = "done"
               /\ result' = Ok(filtered[selected + 1])
               /\ result'.inst \in Range(candidates)
               /\ Matches(result'.inst, query)
          ELSE /\ pc' = "top"
               /\ UNCHANGED <<query, cursor, selected, filtered, instances,
                              screen, fds, result, cresult>>]_vars

\* Enter confirmed a row below the first of a view narrowed by a query.
ConfirmReturnsHighlightedWitness ==
    /\ pc = "done"
    /\ ev = "KeyEnter"
    /\ query # <<>>
    /\ selected > 0
    /\ result = Ok(filtered[selected + 1])

(***************************************************************************)
(* C6  Cancel: Escape/Ctrl-C is taken in every picker state and ends the   *)
(* loop with the cancellation error and no candidate; that outcome, of     *)
(* SelectInstance and of SelectByName, arises from a cancel only, so the   *)
(* caller tells it from the empty-input and no-match failures.             *)
(***************************************************************************)
CancelDistinct ==
    /\ pc = "poll" => ENABLED KeyEscape
    /\ ev = "KeyEscape" =>
          /\ pc \in {"done", "returned"}
          /\ result = Err(ErrCancelled)
          /\ pc = "returned" => cresult = Err(ErrCancelled)
    /\ result = Err(ErrCancelled) => ev = "KeyEscape"
    /\ cresult = Err(ErrCancelled) => ev = "KeyEscape"
    /\ ErrCancelled \notin {ErrNoInstances, ErrNoMatch, ErrNoRunning}

\* SelectByName handed a cancel of the picker to its caller.
CancelDistinctWitness ==
    /\ pc = "returned"
    /\ ev = "KeyEscape"
    /\ cresult = Err(ErrCancelled)

(***************************************************************************)
(* C7  An empty candidate set is rejected before any terminal takeover:    *)
(* SelectInstance returns the error with no descriptor duplicated, no      *)
(* screen created and no event read.                                       *)
(***************************************************************************)
EmptyRejectedFirst ==
    (caller = "selector" /\ Len(candidates) = 0 /\ pc # "SelectInstance") =>
        /\ pc = "done"
        /\ result = Err(ErrNoInstances)
        /\ fds = "orig"
        /\ screen = "none"
        /\ ev = "none"

\* SelectInstance has returned on an empty candidate set.
EmptyRejectedFirstWitness ==
    /\ caller = "selector"
    /\ Len(candidates) = 0
    /\ pc = "done"
    /\ result = Err(ErrNoInstances)

(***************************************************************************)
(* C8  Terminal restoration: once screen.Init has succeeded, SelectInstance *)
(* returns only with the screen finalised and the saved descriptors        *)
(* restored.                                                               *)
(***************************************************************************)
TerminalRestored ==
    (pc \in {"done", "returned"} /\ screen \in {"active", "fini"}) =>
        /\ screen = "fini"
        /\ fds = "restored"

\* A confirm returned with the terminal restored.
TerminalRestoredWitness ==
    /\ pc = "done"
    /\ ev = "KeyEnter"
    /\ screen = "fini"
    /\ fds = "restored"

(***************************************************************************)
(* C9  Backoff monotonicity: pollInterval starts at 500ms, never decreases *)
(* from one step of the loop to the next, and never exceeds 5s.            *)
(***************************************************************************)
BackoffMonotone ==
    [][/\ (wpc = "call" /\ wpc' # "call") => pollInterval' = 500
       /\ wpc # "call" => /\ pollInterval' >= pollInterval
                          /\ pollInterval' <= 5000]_vars

\* Five unresolved checks: the interval reached the ceiling and stayed there.
BackoffMonotoneWitness ==
    /\ wpc = "select"
    /\ Len(checks) = 5
    /\ delays = <<500, 1000, 2000, 4000, 5000>>
    /\ pollInterval = 5000

(***************************************************************************)
(* C10  Scenario 3: InProgress, InProgress, then Success with stdout       *)
(* "ok\n": the loop returns "ok\n" and no error.  As stated, with the       *)
(* delays before the third check being 500ms, 1000ms:                      *)
(***************************************************************************)
ScenarioThreeAsStated ==
    (/\ wpc = "done"
     /\ checks = <<"InProgress", "InProgress", "Success">>
     /\ invocation.StandardOutputContent = "ok\n") =>
        /\ wresult = WaitOk("ok\n")
        /\ delays = <<500, 1000>>

\* C10 as amended: every check, the first included, follows a wait, so the delays
\* before the third check are 500ms, 1000ms, 2000ms.
ScenarioThree ==
    (/\ wpc = "done"
     /\ checks = <<"InProgress", "InProgress", "Success">>
     /\ invocation.StandardOutputContent = "ok\n") =>
        /\ wresult = WaitOk("ok\n")
        /\ delays = <<500, 1000, 2000>>

\* The scenario has run to its return.
ScenarioThreeWitness ==
    /\ wpc = "done"
    /\ checks = <<"InProgress", "InProgress", "Success">>
    /\ invocation.StandardOutputContent = "ok\n"
    /\ wresult = WaitOk("ok\n")

(***************************************************************************)
(* C11  Result classification: a check that reports Success makes the loop *)
(* return the captured standard output and no error; a check that reports  *)
(* Failed, TimedOut or Cancelled makes it return an error that carries the *)
(* status and the captured standard error (possibly empty), and no output. *)
(***************************************************************************)
ResultClassified ==
    (wpc = "done" /\ ~invocation.err) =>
        /\ invocation.Status = "Success" =>
              /\ wresult.kind = "ok"
              /\ wresult.output = IF invocation.StandardOutputContent = Nil
                                  THEN ""
                                  ELSE invocation.StandardOutputContent
        /\ invocation.Status \in {"Failed", "TimedOut", "Cancelled"} =>
              /\ wresult.kind = "err"
              /\ wresult.what = "command"
              /\ wresult.status = invocation.Status
              /\ wresult.errMsg = IF invocation.StandardErrorContent = Nil
                                  THEN ""
                                  ELSE invocation.StandardErrorContent
              /\ wresult.output = ""

\* A command that printed to both streams has failed, and the loop has returned.
ResultClassifiedWitness ==
    /\ wpc = "done"
    /\ invocation.Status = "Failed"
    /\ invocation.StandardOutputContent = "part"
    /\ invocation.StandardErrorContent = "boom"
    /\ wresult = WaitFailed("Failed", "boom")

(***************************************************************************)
(* C12  A status check that returns an error is not surfaced: the step     *)
(* returns nothing, doubles pollInterval up to 5s and goes back to the     *)
(* wait, as a Pending or InProgress answer does; a run whose checks all    *)
(* returned an error has returned, if at all, the context error of a       *)
(* cancellation.                                                           *)
(***************************************************************************)
CheckErrorAbsorbed ==
    [][/\ (Len(checks') = Len(checks) + 1 /\ checks'[Len(checks')] = "error") =>
             /\ wresult' = NoResult
             /\ wpc' = "select"
             /\ pollInterval' = IF 2 * pollInterval < 5000 THEN 2 * pollInterval ELSE 5000
             /\ delays' = delays
       /\ (\A k \in DOMAIN checks' : checks'[k] = "error") =>
             \/ wresult' = NoResult
             \/ ctxDone' /\ wresult' = WaitCtxErr]_vars

\* Three checks failed in a row, nobody cancelled, and the loop is waiting again.
CheckErrorAbsorbedWitness ==
    /\ wpc = "select"
    /\ ~ctxDone
    /\ checks = <<"error", "error", "error">>
    /\ pollInterval = 4000
    /\ wresult = NoResult

(***************************************************************************)
(* C13  Cancellability.  As stated: a loop that returns after the          *)
(* cancellation fired returns the context error.                           *)
(***************************************************************************)
CancelReturnsCtxErr ==
    (wpc = "done" /\ ctxDone) => wresult = WaitCtxErr

\* C13 as amended: once the cancellation has fired the loop returns, whatever the
\* backend answers; what it returns is the context error, unless the check that was in
\* flight when the cancellation fired reports a final status, whose result is returned.
CancelReturns ==
    /\ ctxDone ~> wpc = "done"
    /\ [](( wpc = "done" /\ ctxDone) =>
             \/ wresult = WaitCtxErr
             \/ /\ callLive
                /\ ~invocation.err
                /\ invocation.Status \in {"Success", "Failed", "TimedOut", "Cancelled"}
                /\ IF invocation.Status = "Success"
                   THEN wresult.kind = "ok"
                   ELSE wresult.kind = "err" /\ wresult.status = invocation.Status)

\* Cancelled during the second wait: the loop has returned the context error.
CancelReturnsWitness ==
    /\ wpc = "done"
    /\ ctxDone
    /\ checks = <<"InProgress">>
    /\ delays = <<500>>
    /\ wresult = WaitCtxErr

(***************************************************************************)
(* C14  Upload size boundary: UploadFile goes on to SendCommand with a     *)
(* file of 102400 bytes or fewer, and returns a size error for a file of   *)
(* 102401 bytes or more without any SendCommand call, wait or status       *)
(* check.                                                                  *)
(***************************************************************************)
UploadSizeBoundary ==
    (op = "UploadFile" /\ size # ReadError /\ tpc # "UploadFile") =>
        IF size >= 102401
        THEN /\ tpc = "returned"
             /\ tresult = TransferErr("size")
             /\ sends = 0
             /\ wpc = "idle"
             /\ delays = <<>>
             /\ checks = <<>>
        ELSE /\ sends = 1
             /\ tresult # TransferErr("size")

\* A file one byte over the limit has been refused.
UploadSizeBoundaryWitness ==
    /\ op = "UploadFile"
    /\ size = 102401
    /\ tpc = "returned"
    /\ tresult = TransferErr("size")

(***************************************************************************)
(* C15  DownloadFile reports each cause of failure by an error of its own: *)
(* a SendCommand failure, a command that ended Failed, TimedOut or         *)
(* Cancelled, a cancellation of the wait, and an output that is not valid  *)
(* base64 give four different errors.                                      *)
(***************************************************************************)
DownloadErrorsDistinct ==
    (op = "DownloadFile" /\ tpc = "returned") =>
        /\ wpc = "idle" => tresult = TransferErr("send")
        /\ (wpc = "done" /\ wresult.kind = "err") =>
              /\ tresult.kind = "err"
              /\ tresult.what = (IF wresult = WaitCtxErr THEN "context" ELSE "command")
              /\ tresult.status = wresult.status
        /\ (wpc = "done" /\ wresult.kind = "ok" /\ wresult.output = "ok\n") =>
              tresult = TransferErr("decode")
        /\ tresult = TransferErr("decode") =>
              (wpc = "done" /\ wresult.kind = "ok" /\ wresult.output = "ok\n")

\* The command succeeded and printed something that is not base64.
DownloadErrorsDistinctWitness ==
    /\ op = "DownloadFile"
    /\ tpc = "returned"
    /\ checks = <<"Success">>
    /\ wresult = WaitOk("ok\n")
    /\ tresult = TransferErr("decode")

(***************************************************************************)
(* C16  An UploadFile whose file was accepted and whose command was        *)
(* submitted returns success exactly when the polling loop ended on a      *)
(* check that reported Success, whatever the command printed.              *)
(***************************************************************************)
UploadOkIffSuccess ==
    (op = "UploadFile" /\ tpc = "returned" /\ wpc # "idle") =>
        (tresult = TransferOk <=> (checks # <<>> /\ checks[Len(checks)] = "Success"))

\* An upload whose command printed text has returned success.
UploadOkIffSuccessWitness ==
    /\ op = "UploadFile"
    /\ tpc = "returned"
    /\ checks = <<"Pending", "Success">>
    /\ invocation.StandardOutputContent = "ok\n"
    /\ tresult = TransferOk

(***************************************************************************)
(* C17  Recency list: from an empty history, after any sequence of Add     *)
(* calls the list holds at most 5 entries, holds no instance id twice, has *)
(* the entry of the last Add at the front, and is in most-recent-first     *)
(* order.                                                                  *)
(***************************************************************************)
RecencyList ==
    /\ Len(hRecent) <= 5
    /\ \A i, j \in DOMAIN hRecent :
          i # j => hRecent[i].InstanceID # hRecent[j].InstanceID
    /\ \A i, j \in DOMAIN hRecent :
          i < j => hRecent[i].LastUsed > hRecent[j].LastUsed
    /\ now > 0 => (hRecent # <<>> /\ hRecent[1].LastUsed = now)

\* Six Adds, the fourth of an id already there: five entries are kept, "i-1" is dropped.
RecencyListWitness ==
    /\ now = 6
    /\ Len(hRecent) = 5
    /\ [i \in 1..5 |-> hRecent[i].InstanceID] = <<"i-6", "i-5", "i-2", "i-4", "i-3">>
    /\ [i \in 1..5 |-> hRecent[i].LastUsed] = <<6, 5, 4, 3, 2>>

(***************************************************************************)
(* C18  A StartSession that fails to start the session (StartSession API   *)
(* error, plugin not found, tty unavailable) leaves the history file as it *)
(* was.                                                                    *)
(***************************************************************************)
HistoryOnlyAfterConnect ==
    (spc = "returned" /\ sresult \in {SessionErr("api"), SessionErr("plugin"),
                                      SessionErr("tty")}) =>
        store = storeBefore

(***************************************************************************)
(* C19  With AWS_SSM_CONNECT_HISTORY_DISABLED non-empty StartSession never *)
(* changes the history file.  With it unset StartSession puts the target   *)
(* at the front of the history, moving it there if it was listed; and      *)
(* whether or not that was saved, StartSession goes on to start the        *)
(* session.                                                                *)
(***************************************************************************)
IDsOf(list) == [i \in DOMAIN list |-> list[i].InstanceID]

TargetFirst(ids, id) ==
    LET moved == <<id>> \o SelectSeq(ids, LAMBDA x : x # id)
    IN  SubSeq(moved, 1, IF Len(moved) < 5 THEN Len(moved) ELSE 5)

HistoryToggle ==
    [][/\ disabled => store' = store
       /\ (~disabled /\ spc = "StartSession") =>
             \/ addErr' = "nil" /\ IDsOf(store') = TargetFirst(IDsOf(store), target)
             \/ addErr' = "error" /\ store' = store
       /\ spc = "StartSession" => (spc' = "start" /\ sresult' = NoResult)
       /\ spc = "start" => store' = store]_vars

\* The history could not be saved, and the session ran and ended normally.
HistoryToggleWitness ==
    /\ ~disabled
    /\ addErr = "error"
    /\ target = "i-2"
    /\ IDsOf(storeBefore) = <<"i-2", "i-1">>
    /\ spc = "returned"
    /\ sresult = SessionOk

(***************************************************************************)
(* C20  Terminal states are final: a check that reports Success, Failed,   *)
(* TimedOut or Cancelled is the last check of the loop; the loop returns   *)
(* on it, once, and after it has returned there is no further wait, check  *)
(* or result.                                                              *)
(***************************************************************************)
TerminalFinal ==
    [][/\ \A k \in DOMAIN checks' :
             checks'[k] \in {"Success", "Failed", "TimedOut", "Cancelled"} =>
                 /\ k = Len(checks')
                 /\ wpc' = "done"
                 /\ wresult' # NoResult
       /\ wresult # NoResult => wresult' = wresult
       /\ wpc = "done" => /\ wpc' = "done"
                          /\ delays' = delays
                          /\ checks' = checks
                          /\ invocation' = invocation]_vars

\* The second check reported TimedOut and the loop returned on it.
TerminalFinalWitness ==
    /\ wpc = "done"
    /\ checks = <<"Pending", "TimedOut">>
    /\ delays = <<500, 1000>>
    /\ wresult = WaitFailed("TimedOut", "boom")

(***************************************************************************)
(* C21  SelectByName on a non-empty set of running instances: when no      *)
(* instance matches the name it returns the "no instances found matching"  *)
(* error and the picker is never opened; when one matches it returns that  *)
(* instance and the picker is never opened; when several match the picker  *)
(* is given exactly the matching instances, and what is returned is one of *)
(* them.                                                                   *)
(***************************************************************************)
SelectByNameCases ==
    (caller = "SelectByName" /\ Len(running) > 0 /\ pc # "SelectByName") =>
        LET m == MatchingIn(running, name)
            unopened == /\ pc = "returned"
                        /\ candidates = <<>>
                        /\ instances = <<>>
                        /\ screen = "none"
                        /\ fds = "orig"
                        /\ result = NoResult
        IN  /\ Len(m) = 0 => (unopened /\ cresult = Err(ErrNoMatch))
            /\ Len(m) = 1 => (unopened /\ cresult = OkIDName(m[1]))
            /\ Len(m) >= 2 =>
                  /\ candidates = m
                  /\ cresult.kind = "ok" =>
                        \E k \in 1..Len(m) : /\ cresult = OkIDName(m[k])
                                              /\ Matches(m[k], name)

\* Three instances matched the name; the user narrowed the view and confirmed one.
SelectByNameCasesWitness ==
    /\ caller = "SelectByName"
    /\ Len(MatchingIn(running, name)) = 3
    /\ pc = "returned"
    /\ query # <<>>
    /\ screen = "fini"
    /\ cresult.kind = "ok"

(***************************************************************************)
(* C22  A printable character event puts the character into the query at   *)
(* the cursor, advances the cursor by one and sets the highlight to 0,     *)
(* where it still is when the view is rendered next.                       *)
(***************************************************************************)
RuneInserted ==
    [][/\ (pc = "poll" /\ ev' = "KeyRune") =>
             /\ \E r \in {<<"a">>, <<"B">>, <<Space>>, EAcute} :
                   query' = SubSeq(query, 1, cursor) \o r \o SubSeq(query, cursor + 1, Len(query))
             /\ cursor' = cursor + 1
             /\ selected' = 0
       /\ (pc = "top" /\ ev = "KeyRune") =>
             /\ selected' = 0
             /\ UNCHANGED <<query, cursor>>]_vars

\* "a" was typed in front of "B" while the view was shown.
RuneInsertedWitness ==
    /\ pc = "top"
    /\ ev = "KeyRune"
    /\ query = <<"a", "B">>
    /\ cursor = 1
    /\ selected = 0

(***************************************************************************)
(* C23  Backspace removes exactly the character before the cursor and     *)
(* moves the cursor back over it, Delete removes exactly the character at  *)
(* the cursor and leaves the cursor in place; Backspace at cursor 0 and    *)
(* Delete at cursor = len(query) change neither query nor cursor.          *)
(***************************************************************************)
\* The bytes of the character that begins at byte i of s.
WidthAt(s, i) == IF DecodeWidth(s, i) = 0 THEN 1 ELSE DecodeWidth(s, i)

\* The bytes of the character that ends at byte i of s.
WidthBefore(s, i) ==
    IF i >= 2 /\ DecodeWidth(s, i - 1) = 2 THEN 2
    ELSE IF i >= 3 /\ DecodeWidth(s, i - 2) = 3 THEN 3
    ELSE 1

CharacterRemoved ==
    [][/\ (pc = "poll" /\ ev' = "KeyBackspace") =>
             IF cursor > 0
             THEN LET w == WidthBefore(query, cursor) IN
                  /\ query' = SubSeq(query, 1, cursor - w) \o SubSeq(query, cursor + 1, Len(query))
                  /\ cursor' = cursor - w
             ELSE UNCHANGED <<query, cursor>>
       /\ (pc = "poll" /\ ev' = "KeyDelete") =>
             IF cursor < Len(query)
             THEN LET w == WidthAt(query, cursor + 1) IN
                  /\ query' = SubSeq(query, 1, cursor) \o SubSeq(query, cursor + w + 1, Len(query))
                  /\ cursor' = cursor
             ELSE UNCHANGED <<query, cursor>>]_vars

(***************************************************************************)
(* C24  Cursor invariant: whatever the events, 0 <= cursor <= len(query).  *)
(* Left and Right move the cursor by one and stop at 0 and at len(query);  *)
(* Ctrl-A and Ctrl-E set it to 0 and to len(query); none of the four       *)
(* changes the query.                                                      *)
(***************************************************************************)
CursorInRange ==
    [][/\ 0 <= cursor' /\ cursor' <= Len(query')
       /\ (pc = "poll" /\ ev' = "KeyLeft") =>
             /\ cursor' = IF cursor = 0 THEN 0 ELSE cursor - 1
             /\ query' = query
       /\ (pc = "poll" /\ ev' = "KeyRight") =>
             /\ cursor' = IF cursor = Len(query) THEN Len(query) ELSE cursor + 1
             /\ query' = query
       /\ (pc = "poll" /\ ev' = "KeyCtrlA") =>
             /\ cursor' = 0
             /\ query' = query
       /\ (pc = "poll" /\ ev' = "KeyCtrlE") =>
             /\ cursor' = Len(query)
             /\ query' = query]_vars

\* Right was pressed and the cursor is at the end of a three-byte query.
CursorInRangeWitness ==
    /\ pc = "top"
    /\ ev = "KeyRight"
    /\ Len(query) = 3
    /\ cursor = 3

(***************************************************************************)
(* C25  Ctrl-U: the query becomes the text that was at and after the       *)
(* cursor and the cursor becomes 0; with the cursor at 0 nothing changes.  *)
(***************************************************************************)
KillToStart ==
    [][(pc = "poll" /\ ev' = "KeyCtrlU") =>
          /\ Len(query') = Len(query) - cursor
          /\ \A i \in 1..Len(query') : query'[i] = query[cursor + i]
          /\ cursor' = 0
          /\ cursor = 0 => UNCHANGED <<query, cursor>>]_vars

\* Ctrl-U cut the head off the query: the view drawn last is not the view of its tail.
KillToStartWitness ==
    /\ pc = "top"
    /\ ev = "KeyCtrlU"
    /\ query = <<"B">>
    /\ cursor = 0
    /\ filtered # filterInstances(instances, query)

(***************************************************************************)
(* C26  Up and Down move the highlight by exactly one inside               *)
(* [0, len(filtered)-1] and do not wrap: Up at row 0, and Down at the last *)
(* row or on an empty view, leave it where it is; neither changes query or *)
(* cursor.                                                                 *)
(***************************************************************************)
HighlightMoves ==
    [][/\ (pc = "poll" /\ ev' = "KeyUp") =>
             /\ selected' = IF selected = 0 THEN 0 ELSE selected - 1
             /\ UNCHANGED <<query, cursor>>
       /\ (pc = "poll" /\ ev' = "KeyDown") =>
             /\ selected' = IF Len(filtered) = 0 \/ selected = Len(filtered) - 1
                            THEN selected
                            ELSE selected + 1
             /\ Len(filtered) > 0 => selected' \in 0..(Len(filtered) - 1)
             /\ UNCHANGED <<query, cursor>>]_vars

\* Down was pressed and the highlight is on the last of three rows.
HighlightMovesWitness ==
    /\ pc = "top"
    /\ ev = "KeyDown"
    /\ Len(filtered) = 3
    /\ selected = 2

(***************************************************************************)
(* C27  A resize event changes nothing of the picker's logical state:      *)
(* query, cursor, highlight and filtered view are the same after the event *)
(* and after the render that follows it, and the picker does not return.   *)
(***************************************************************************)
ResizeKeepsState ==
    [][/\ (pc = "poll" /\ ev' = "EventResize") =>
             /\ pc' = "top"
             /\ UNCHANGED <<query, cursor, selected, filtered, instances, result, screen, fds>>
       /\ (pc = "top" /\ ev = "EventResize") =>
             /\ pc' = "poll"
             /\ UNCHANGED <<query, cursor, selected, filtered, instances, result, screen, fds>>]_vars

\* A resize arrived while the second row of a narrowed view was highlighted.
ResizeKeepsStateWitness ==
    /\ pc = "top"
    /\ ev = "EventResize"
    /\ query # <<>>
    /\ selected = 1
    /\ result = NoResult

(***************************************************************************)
(* C28  Scroll window: after every drawScreen the first drawn row index is *)
(* >= 0; when the viewport has at least one row the highlighted row lies   *)
(* in [startIdx, startIdx + viewport), and is one of the rows read when    *)
(* the list is not empty; and for every height, those with no viewport     *)
(* rows included, every index read from filtered is in [0, len(filtered)). *)
(***************************************************************************)
ScrollWindow ==
    dpc = "drawn" =>
        LET viewport == height - 3
        IN  /\ startIdx >= 0
            /\ viewport >= 1 =>
                  /\ startIdx <= selected
                  /\ selected < startIdx + viewport
                  /\ Len(filtered) > 0 => \E k \in 1..Len(accessed) : accessed[k] = selected
            /\ \A k \in 1..Len(accessed) :
                  accessed[k] >= 0 /\ accessed[k] < Len(filtered)
            /\ viewport <= 0 => accessed = <<>>

\* The last of four rows is highlighted in a viewport of two rows.
ScrollWindowWitness ==
    /\ dpc = "drawn"
    /\ height = 5
    /\ Len(filtered) = 4
    /\ selected = 3
    /\ startIdx = 2
    /\ accessed = <<2, 3>>

(***************************************************************************)
(* C29  Backoff schedule: the wait before the k-th status check is         *)
(* min(500ms * 2^(k-1), 5s) whatever the unresolved checks before it were  *)
(* (Pending, InProgress, a failed call, an unrecognised status), and the   *)
(* interval the loop holds after j unresolved checks is min(500 * 2^j, 5s).*)
(***************************************************************************)
BackoffSchedule ==
    /\ \A k \in 1..Len(delays) : delays[k] = Min(500 * 2^(k - 1), 5000)
    /\ wpc = "select" => pollInterval = Min(500 * 2^Len(checks), 5000)
    /\ Len(delays) >= 1 => delays[1] = 500

\* Six waits went by, with a failed call, an unrecognised status and a pending one
\* among the checks between them.
BackoffScheduleWitness ==
    /\ delays = <<500, 1000, 2000, 4000, 5000, 5000>>
    /\ \E i, j, k \in 1..Len(checks) :
          /\ checks[i] = "error"
          /\ checks[j] \in UnknownStatuses
          /\ checks[k] \in PendingStatuses

(***************************************************************************)
(* C30  The loop returns only on a check that reported Success, Failed,    *)
(* TimedOut or Cancelled, or on the cancelled context.  While every check  *)
(* so far failed or reported a non-terminal status and the context is not  *)
(* cancelled, the loop has not returned, whatever the number of checks     *)
(* made, and its next step is always there to take: the timer at the       *)
(* select (never the return), a failed or pending answer at the check.     *)
(***************************************************************************)
Unresolved ==
    \A k \in 1..Len(checks) : checks[k] \in {"error"} \cup PendingStatuses \cup UnknownStatuses

PollsWithoutBound ==
    /\ wpc = "done" =>
          \/ /\ Len(checks) > 0
             /\ checks[Len(checks)] \in {"Success"} \cup FailedStatuses
             /\ wresult.kind = "ok" \/ wresult.what = "command"
          \/ /\ ctxDone
             /\ wresult = WaitCtxErr
    /\ (Unresolved /\ ~ctxDone) =>
          /\ wpc # "done"
          /\ wresult = NoResult
          /\ wpc = "select" => /\ ~ENABLED SelectCtxDone
                               /\ Len(delays) < MaxChecks => ENABLED SelectTimer
          /\ wpc = "check" => ENABLED CheckError /\ ENABLED CheckPending /\ ENABLED CheckUnknown

\* As many checks as the model follows were made, none resolved the command, and the
\* loop is waiting for the next one.
PollsWithoutBoundWitness ==
    /\ Len(checks) = MaxChecks
    /\ Unresolved
    /\ \E k \in 1..Len(checks) : checks[k] = "error"
    /\ ~ctxDone
    /\ wpc = "select"
    /\ pollInterval = maxInterval
    /\ wresult = NoResult

(***************************************************************************)
(* C31  A rejected SendCommand is final: UploadFile and DownloadFile have  *)
(* returned the "failed to send command" error after exactly one           *)
(* submission, the polling loop was never entered, no wait elapsed and no  *)
(* status check was made, and the local file is as it was.                 *)
(***************************************************************************)
SendErrorTerminal ==
    /\ tresult = TransferErr("send") =>
          /\ tpc = "returned"
          /\ sends = 1
          /\ wpc = "idle"
          /\ pollInterval = 0
          /\ delays = <<>>
          /\ checks = <<>>
          /\ invocation = NoInvocation
          /\ wresult = NoResult
          /\ localFile = Untouched
    /\ sends <= 1
    /\ (sends = 1 /\ wpc = "idle") => tresult = TransferErr("send")

\* DownloadFile has returned the submission error.
SendErrorTerminalWitness ==
    /\ op = "DownloadFile"
    /\ tpc = "returned"
    /\ sends = 1
    /\ tresult = TransferErr("send")

(***************************************************************************)
(* C32  Backspace, Delete and Ctrl-U leave the highlighted index as it is; *)
(* the render that follows only clamps it into the new view: it becomes    *)
(* min(previous index, len(new view) - 1), or 0 when the new view is       *)
(* empty.  The row under the highlight may then be another candidate.      *)
(***************************************************************************)
ShrinkEvents == {"KeyBackspace", "KeyDelete", "KeyCtrlU"}

ShrinkKeepsHighlight ==
    [][/\ (pc = "poll" /\ ev' \in ShrinkEvents) => selected' = selected
       /\ (pc = "top" /\ ev \in ShrinkEvents) =>
             /\ filtered' = filterInstances(instances, query)
             /\ selected' = IF Len(filtered') = 0 THEN 0
                            ELSE Min(selected, Len(filtered') - 1)]_vars

\* Backspace was pressed with a row below the first highlighted; the index is kept and
\* the wider view about to be drawn has another candidate in that row.
ShrinkKeepsHighlightWitness ==
    /\ pc = "top"
    /\ ev = "KeyBackspace"
    /\ selected > 0
    /\ selected < Len(filtered)
    /\ LET view == filterInstances(instances, query)
       IN  /\ selected < Len(view)
           /\ view[selected + 1] # filtered[selected + 1]

(***************************************************************************)
(* C33  After any sequence of events, characters of more than one byte     *)
(* included, the cursor is on a character boundary of the query; a         *)
(* character typed with the cursor at the end leaves the cursor at         *)
(* len(query); Backspace and Delete take one whole character out.          *)
(***************************************************************************)
\* The byte offsets of s at which a character begins or the string ends, from byte i on.
RECURSIVE BoundariesFrom(_, _)
BoundariesFrom(s, i) ==
    IF i > Len(s) THEN {Len(s)}
    ELSE {i - 1} \cup BoundariesFrom(s, i + WidthAt(s, i))

Boundaries(s) == BoundariesFrom(s, 1)

CursorOnCharacter ==
    [][/\ cursor' \in Boundaries(query')
       /\ (pc = "poll" /\ ev' = "KeyRune" /\ cursor = Len(query)) => cursor' = Len(query')
       /\ (pc = "poll" /\ ev' = "KeyBackspace" /\ cursor > 0) =>
             /\ Cardinality(Boundaries(query')) = Cardinality(Boundaries(query)) - 1
             /\ query' = SubSeq(query, 1, cursor') \o SubSeq(query, cursor + 1, Len(query))
       /\ (pc = "poll" /\ ev' = "KeyDelete" /\ cursor < Len(query)) =>
             /\ Cardinality(Boundaries(query')) = Cardinality(Boundaries(query)) - 1
             /\ cursor' = cursor
             /\ SubSeq(query', 1, cursor) = SubSeq(query, 1, cursor)]_vars

(***************************************************************************)
(* C34  The local file of DownloadFile is written only once the command    *)
(* has reached Success and its output has decoded: in every state where    *)
(* the file is no longer as it was, the last check reported Success, the   *)
(* output is valid base64 and WriteFile has run; a download that returned  *)
(* a submission, command, cancellation or decode error, and any download   *)
(* still running, has left the file untouched; a download that returned    *)
(* success has written the decoded bytes.                                  *)
(***************************************************************************)
WriteOnlyAfterDecode ==
    /\ localFile # Untouched =>
          /\ op = "DownloadFile"
          /\ tpc = "returned"
          /\ wpc = "done"
          /\ checks # <<>> /\ checks[Len(checks)] = "Success"
          /\ wresult.kind = "ok"
          /\ DecodeString(wresult.output) # CorruptInput
          /\ tresult \in {TransferOk, TransferErr("write")}
    /\ (tresult.kind = "err" /\ tresult.what \in {"send", "command", "context", "decode"}) =>
          localFile = Untouched
    /\ tpc # "returned" => localFile = Untouched
    /\ (op = "DownloadFile" /\ tresult = TransferOk) =>
          localFile = Written(DecodeString(wresult.output))

\* A download whose command was pending once and then printed two bytes in base64 has
\* written them.
WriteOnlyAfterDecodeWitness ==
    /\ op = "DownloadFile"
    /\ tpc = "returned"
    /\ checks = <<"Pending", "Success">>
    /\ wresult = WaitOk("aGk=\n")
    /\ tresult = TransferOk
    /\ localFile = Written(2)

(***************************************************************************)
(* C35  Once cancel() has run the loop starts at most one more status      *)
(* check.  It starts one only when the signal came while the loop was      *)
(* waiting in the select and the timer case was taken all the same; that   *)
(* check is issued on the cancelled context and can only fail, the select  *)
(* after it has no timer to take, and the loop returns the context error.  *)
(* With no check started after the signal the loop returns the context     *)
(* error or the final status of the check that was in flight.              *)
(***************************************************************************)
\* The status checks started since cancel() ran: every check follows one wait.
ChecksAfterCancel == IF ctxDone THEN Len(delays) - cancelAt.n ELSE 0

AtMostOneCheckAfterCancel ==
    /\ ChecksAfterCancel \in {0, 1}
    /\ ChecksAfterCancel = 1 =>
          /\ cancelAt.at = "select"
          /\ ~callLive
          /\ wpc \in {"check", "select", "done"}
          /\ wpc # "check" => /\ Len(checks) = Len(delays)
                              /\ checks[Len(checks)] = "error"
          /\ wpc = "select" => ~ENABLED SelectTimer /\ ENABLED SelectCtxDone
          /\ wpc = "done" => wresult = WaitCtxErr
    /\ (ctxDone /\ wpc = "done" /\ wresult # WaitCtxErr) =>
          /\ cancelAt.at = "check"
          /\ ChecksAfterCancel = 0
          /\ checks[Len(checks)] \in {"Success"} \cup FailedStatuses

\* The signal came during the wait after two pending checks, the timer case was taken,
\* the third check failed, and the loop returned the context error.
AtMostOneCheckAfterCancelWitness ==
    /\ ctxDone
    /\ cancelAt = [n |-> 2, at |-> "select"]
    /\ delays = <<500, 1000, 2000>>
    /\ checks = <<"Pending", "InProgress", "error">>
    /\ wpc = "done"
    /\ wresult = WaitCtxErr

====
